---- MODULE Spec2Model ----
(***************************************************************************)
(* Signaling relay of signaling/server.js: one sender slot, a set of       *)
(* viewers, and per connection a role and two event handlers ('message',   *)
(* 'close').  Node runs the handlers one at a time, so every handler is    *)
(* one atomic action.  The controller pasted in README.md (signalingServer, *)
(* streamerProcess, /start, /stop, /status, shutdown) is the second state   *)
(* machine, with its own specification SupSpec.                             *)
(***************************************************************************)
EXTENDS Integers, Sequences, FiniteSets

\* ---------------------------------------------------------------- bounds
NumConns == 3
MaxEvents == 8
MaxProcs == 4

Conns == 1..NumConns
Null == 0
Server == 0

\* ------------------------------------------------------------ text frames
\* A frame is the text a peer sent.  kind "json" parses to an object with
\* the fields type and role; sdp stands for every further field of the
\* object.  kind "garbage" does not parse.  kind "null" is the text null,
\* kind "primitive" a JSON number or string: both parse, to no object.
None == "none"

Frame(k, t, r, s) == [kind |-> k, type |-> t, role |-> r, sdp |-> s]

RoleFrames == {Frame("json", "role", r, None) : r \in {"sender", "viewer", "other"}}

NegotiationFrames ==
  {Frame("json", t, None, "X") : t \in {"offer", "answer", "ice-candidate"}}

GarbageFrames == {Frame("garbage", None, None, None)}

NullFrames == {Frame("null", None, None, None)}

PrimitiveFrames == {Frame("primitive", None, None, None)}

MalformedFrames == GarbageFrames \cup NullFrames \cup PrimitiveFrames

Raws == RoleFrames \cup NegotiationFrames \cup MalformedFrames

NoRaw == Frame(None, None, None, None)

\* JSON.parse(raw): the object, or ParseError when the text is no JSON.
ParseError == [type |-> "ParseError", role |-> None]

\* JSON.parse('null'): reading a property of it throws a TypeError.
JsonNull == [type |-> "TypeError", role |-> None]

\* A number or a string: every property of it reads as undefined.
Undefined == "undefined"
JsonPrimitive == [type |-> Undefined, role |-> Undefined]

Parse(raw) ==
  IF raw.kind = "json" THEN [type |-> raw.type, role |-> raw.role]
  ELSE IF raw.kind = "null" THEN JsonNull
  ELSE IF raw.kind = "primitive" THEN JsonPrimitive
  ELSE ParseError

\* JSON.stringify({ type: t }): a frame with the type tag and nothing else.
Stringify(t) == Frame("json", t, None, None)

SenderConnected == Stringify("sender-connected")
SenderDisconnected == Stringify("sender-disconnected")

\* ------------------------------------------------------------------ state
VARIABLES
  sender,      \* the sender slot: a connection or Null
  viewers,     \* the viewer set
  role,        \* role[ws]: the handler closure's role variable
  readyState,  \* readyState[ws]: "NONE" before the connection exists, "OPEN",
               \* "CLOSING" once the transport is closing and the close event
               \* is still queued, "CLOSED" after the close handler has run
  inbox,       \* inbox[ws]: what the relay has sent to ws, in order
  crashed,     \* TRUE once a handler has thrown: no handler of the relay
               \* catches, so the exception ends the process
  declared,    \* history: the connections that have taken the sender or the
               \* viewer branch of a role declaration
  nevents,     \* number of events (connection, message, close) so far
  last         \* the event handled last

\* The controller.
VARIABLES
  signalingServer,  \* the tracked signaling child, or Null
  streamerProcess,  \* the tracked streamer child, or Null
  pkind,            \* pkind[p]: "none", "signaling" or "streamer"
  pstate,           \* pstate[p]: "none" not spawned, "alive", "failed" (the
                    \* spawn failed, its 'error' event is queued), "gone"
                    \* (its 'exit' or 'error' handler has run)
  psignal,          \* psignal[p]: the signal kill() was called with, or "none"
  phase,            \* "init", "booted", "listening", "exited"
  ctl               \* the controller event handled last, and its response

relayVars == <<sender, viewers, role, readyState, inbox, crashed, declared, nevents, last>>

supVars == <<signalingServer, streamerProcess, pkind, pstate, psignal, phase, ctl>>

vars == <<sender, viewers, role, readyState, inbox, crashed, declared, nevents, last,
          signalingServer, streamerProcess, pkind, pstate, psignal, phase, ctl>>

Pids == 1..MaxProcs

\* One controller event: what it was, the child it was about, the status
\* and the two booleans of the response (of /status), and the event before.
Ctl(op, p, status, sig, str, prev) ==
  [op |-> op, p |-> p, status |-> status, signaling |-> sig, streamer |-> str,
   prevOp |-> prev.op, prevStatus |-> prev.status]

SupInit ==
  /\ signalingServer = Null
  /\ streamerProcess = Null
  /\ pkind = [p \in Pids |-> "none"]
  /\ pstate = [p \in Pids |-> "none"]
  /\ psignal = [p \in Pids |-> "none"]
  /\ phase = "init"
  /\ ctl = [op |-> "load", p |-> Null, status |-> None, signaling |-> FALSE,
            streamer |-> FALSE, prevOp |-> None, prevStatus |-> None]

OPEN == "OPEN"

IsOpen(ws) == ws # Null /\ readyState[ws] = OPEN

\* One delivery: the frame, the connection whose message caused it (Server
\* for a notification) and the line of the relay that sent it.
Delivery(raw, from, via) == [raw |-> raw, from |-> from, via |-> via]

Event(op, ws, raw) == [op |-> op, ws |-> ws, raw |-> raw]

\* ws.send(msg): every call site of the relay sends to an open connection.
Send(ib, ws, d) == [ib EXCEPT ![ws] = Append(@, d)]

\* Variant: the loop does not test readyState.
broadcastToViewers_NoOpenTest(ib, vs, d) ==
  [c \in Conns |-> IF c \in vs THEN Append(ib[c], d) ELSE ib[c]]

\* for (const v of viewers) if (v.readyState === OPEN) v.send(msg)
broadcastToViewers(ib, vs, d) ==
  [c \in Conns |-> IF c \in vs /\ readyState[c] = OPEN THEN Append(ib[c], d) ELSE ib[c]]

Init ==
  /\ sender = Null
  /\ viewers = {}
  /\ role = [c \in Conns |-> "unknown"]
  /\ readyState = [c \in Conns |-> "NONE"]
  /\ inbox = [c \in Conns |-> <<>>]
  /\ crashed = FALSE
  /\ declared = {}
  /\ nevents = 0
  /\ last = Event("init", Null, NoRaw)
  /\ SupInit

\* wss.on('connection'): connections are numbered in the order they arrive.
Connect(ws) ==
  /\ ~crashed
  /\ readyState[ws] = "NONE"
  /\ nevents < MaxEvents
  /\ nevents' = nevents + 1
  /\ \A c \in Conns : c < ws => readyState[c] # "NONE"
  /\ readyState' = [readyState EXCEPT ![ws] = OPEN]
  /\ role' = [role EXCEPT ![ws] = "unknown"]
  /\ last' = Event("connection", ws, NoRaw)
  /\ UNCHANGED <<sender, viewers, inbox, crashed, declared>>
  /\ UNCHANGED supVars

\* ------------------------------------------------- 'message': role branch
\* role = data.role
DeclaredRole(old, data) == data.role

\* Variant: the notification follows the openness of the slot's connection.
ViewerNotification_IfOpen(s) ==
  IF IsOpen(s) THEN SenderConnected ELSE SenderDisconnected

\* if (sender) sender-connected else sender-disconnected
ViewerNotification(s) == IF s # Null THEN SenderConnected ELSE SenderDisconnected

\* Variant: a declaration does not replace a sender that is already set.
SenderAfterRole_FirstWins(s, ws, r) == IF r = "sender" /\ s = Null THEN ws ELSE s

\* if (role === 'sender') sender = ws
SenderAfterRole(s, ws, r) == IF r = "sender" THEN ws ELSE s

\* else if (role === 'viewer') viewers.add(ws)
ViewersAfterRole(vs, ws, r) == IF r = "viewer" THEN vs \cup {ws} ELSE vs

\* The branches that register ws: role === 'sender', role === 'viewer'.
DeclaredAfterRole(ds, ws, r) == IF r \in {"sender", "viewer"} THEN ds \cup {ws} ELSE ds

\* Variant: a sender declaration is not announced to the viewers.
InboxAfterRole_NoBroadcast(ib, ws, r) ==
  IF r = "viewer"
    THEN Send(ib, ws, Delivery(ViewerNotification(sender), Server, "notify"))
    ELSE ib

\* Variant: a joining viewer is not told the sender's presence.
InboxAfterRole_NoSync(ib, ws, r) ==
  IF r = "sender"
    THEN broadcastToViewers(ib, viewers, Delivery(SenderConnected, Server, "notify"))
    ELSE ib

InboxAfterRole(ib, ws, r) ==
  IF r = "sender"
    THEN broadcastToViewers(ib, viewers, Delivery(SenderConnected, Server, "notify"))
    ELSE IF r = "viewer"
      THEN Send(ib, ws, Delivery(ViewerNotification(sender), Server, "notify"))
      ELSE ib

\* ------------------------------------------------ 'message': relay branch
\* Variant: the parsed object is serialised again, keeping its type tag only.
RelayPayload_Reserialised(raw, data) == Stringify(data.type)

\* The text that is forwarded: raw, never a re-serialisation of data.
RelayPayload(raw, data) == raw

\* Variant: the offer branch does not look at the role.
OfferToSender_AnyRole(data, r, s) == data.type = "offer" /\ IsOpen(s)

\* data.type === 'offer' && role === 'viewer' && sender?.readyState === OPEN
OfferToSender(data, r, s) == data.type = "offer" /\ r = "viewer" /\ IsOpen(s)

\* Variant: the answer branch does not look at the role.
AnswerToViewers_AnyRole(data, r) == data.type = "answer"

\* data.type === 'answer' && role === 'sender'
AnswerToViewers(data, r) == data.type = "answer" /\ r = "sender"

\* role === 'viewer' && sender?.readyState === OPEN
IceToSender(r, s) == r = "viewer" /\ IsOpen(s)

\* role === 'sender'
IceToViewers(r) == r = "sender"

Relay(ib, ws, data, raw) ==
  LET toSender == Delivery(RelayPayload(raw, data), ws, "sender")
      toViewers == Delivery(RelayPayload(raw, data), ws, "viewers")
  IN  IF OfferToSender(data, role[ws], sender)
        THEN Send(ib, sender, toSender)
        ELSE IF AnswerToViewers(data, role[ws])
          THEN broadcastToViewers(ib, viewers, toViewers)
          ELSE IF data.type = "ice-candidate"
            THEN LET ib1 == IF IceToSender(role[ws], sender)
                              THEN Send(ib, sender, toSender) ELSE ib
                 IN  IF IceToViewers(role[ws])
                       THEN broadcastToViewers(ib1, viewers, toViewers) ELSE ib1
            ELSE ib

\* data.type on the parsed value: throws when the value is null.
Throws(data) == data = JsonNull

\* ws.on('message'): a frame arrives on a connection that is open.
OnMessage(ws, raw) ==
  /\ ~crashed
  /\ readyState[ws] = OPEN
  /\ nevents < MaxEvents
  /\ LET data == Parse(raw)
     IN  IF data = ParseError
           THEN UNCHANGED <<sender, viewers, role, inbox, crashed, declared>>
           ELSE IF Throws(data)
             THEN /\ crashed' = TRUE
                  /\ UNCHANGED <<sender, viewers, role, inbox, declared>>
             ELSE IF data.type = "role"
               THEN LET r == DeclaredRole(role[ws], data)
                    IN  /\ role' = [role EXCEPT ![ws] = r]
                        /\ sender' = SenderAfterRole(sender, ws, r)
                        /\ viewers' = ViewersAfterRole(viewers, ws, r)
                        /\ inbox' = InboxAfterRole(inbox, ws, r)
                        /\ declared' = DeclaredAfterRole(declared, ws, r)
                        /\ UNCHANGED crashed
               ELSE /\ inbox' = Relay(inbox, ws, data, raw)
                    /\ UNCHANGED <<sender, viewers, role, crashed, declared>>
  /\ nevents' = nevents + 1
  /\ last' = Event("message", ws, raw)
  /\ UNCHANGED readyState
  /\ UNCHANGED supVars

\* ------------------------------------------------------------ 'close'
\* The transport of ws starts closing: readyState leaves OPEN, the close
\* event is queued.
TransportClose(ws) ==
  /\ ~crashed
  /\ readyState[ws] = OPEN
  /\ nevents < MaxEvents
  /\ nevents' = nevents + 1
  /\ readyState' = [readyState EXCEPT ![ws] = "CLOSING"]
  /\ last' = Event("closing", ws, NoRaw)
  /\ UNCHANGED <<sender, viewers, role, inbox, crashed, declared>>
  /\ UNCHANGED supVars

\* Variant: the close of any connection whose role is sender clears the slot.
SenderAfterClose_AnySender(s, ws) == IF role[ws] = "sender" THEN Null ELSE s

\* if (ws === sender) sender = null
SenderAfterClose(s, ws) == IF ws = s THEN Null ELSE s

\* Variant: the close of the sender is not announced.
InboxAfterClose_Silent(ib, ws) == ib

\* if (ws === sender) broadcastToViewers(sender-disconnected)
InboxAfterClose(ib, ws) ==
  IF ws = sender
    THEN broadcastToViewers(ib, viewers, Delivery(SenderDisconnected, Server, "notify"))
    ELSE ib

\* Variant: a closed connection is left in the viewer set.
ViewersAfterClose_Keep(vs, ws) == vs

\* viewers.delete(ws)
ViewersAfterClose(vs, ws) == vs \ {ws}

\* ws.on('close')
OnClose(ws) ==
  /\ ~crashed
  /\ readyState[ws] = "CLOSING"
  /\ nevents < MaxEvents
  /\ nevents' = nevents + 1
  /\ readyState' = [readyState EXCEPT ![ws] = "CLOSED"]
  /\ sender' = SenderAfterClose(sender, ws)
  /\ inbox' = InboxAfterClose(inbox, ws)
  /\ viewers' = ViewersAfterClose(viewers, ws)
  /\ last' = Event("close", ws, NoRaw)
  /\ UNCHANGED <<role, crashed, declared>>
  /\ UNCHANGED supVars

Next ==
  \/ \E ws \in Conns : Connect(ws)
  \/ \E ws \in Conns, raw \in Raws : OnMessage(ws, raw)
  \/ \E ws \in Conns : TransportClose(ws)
  \/ \E ws \in Conns : OnClose(ws)

Spec == Init /\ [][Next]_vars

TypeOK ==
  /\ sender \in Conns \cup {Null}
  /\ viewers \subseteq Conns
  /\ nevents \in 0..MaxEvents
  /\ declared \subseteq Conns
  /\ crashed \in BOOLEAN
  /\ role \in [Conns -> {"unknown", "sender", "viewer", "other"}]
  /\ readyState \in [Conns -> {"NONE", OPEN, "CLOSING", "CLOSED"}]

\* ============================================================ controller
\* The child a spawn() creates: the first process number not yet used.
FreePids == {p \in Pids : pstate[p] = "none"}
NewPid == CHOOSE p \in FreePids : \A q \in FreePids : p <= q

\* spawn(...): the child runs, or the spawn fails and 'error' is queued.
SpawnOutcomes == {"alive", "failed"}

\* child.kill(sig)
Kill(sigs, p, sig) == [sigs EXCEPT ![p] = sig]

\* startSignalingServer(), called once when the controller is loaded
Boot ==
  /\ phase = "init"
  /\ signalingServer = Null
  /\ FreePids # {}
  /\ \E o \in SpawnOutcomes :
       /\ pstate' = [pstate EXCEPT ![NewPid] = o]
       /\ pkind' = [pkind EXCEPT ![NewPid] = "signaling"]
       /\ signalingServer' = NewPid
       /\ ctl' = Ctl("boot", NewPid, None, FALSE, FALSE, ctl)
  /\ phase' = "booted"
  /\ UNCHANGED <<streamerProcess, psignal>>
  /\ UNCHANGED relayVars

\* setTimeout(() => app.listen(8090), 1000)
Listen ==
  /\ phase = "booted"
  /\ phase' = "listening"
  /\ ctl' = Ctl("listen", Null, None, FALSE, FALSE, ctl)
  /\ UNCHANGED <<signalingServer, streamerProcess, pkind, pstate, psignal>>
  /\ UNCHANGED relayVars

\* signalingServer.on('exit') and .on('error'): signalingServer = null
SignalingAfterExit(ss, p) == Null

SignalingEvent(p) ==
  /\ phase \in {"booted", "listening"}
  /\ pkind[p] = "signaling"
  /\ pstate[p] \in {"alive", "failed"}
  /\ pstate' = [pstate EXCEPT ![p] = "gone"]
  /\ signalingServer' = SignalingAfterExit(signalingServer, p)
  /\ ctl' = Ctl(IF pstate[p] = "alive" THEN "signaling-exit" ELSE "signaling-error",
                p, None, FALSE, FALSE, ctl)
  /\ UNCHANGED <<streamerProcess, pkind, psignal, phase>>
  /\ UNCHANGED relayVars

\* Variant: every /start spawns.
StartSpawns_Always(sp) == TRUE

\* if (streamerProcess) return res.json(already-running)
StartSpawns(sp) == sp = Null

StartStatus(sp) == IF StartSpawns(sp) THEN "started" ELSE "already-running"

\* app.post('/start')
PostStart ==
  /\ phase = "listening"
  /\ IF StartSpawns(streamerProcess)
       THEN /\ FreePids # {}
            /\ \E o \in SpawnOutcomes : pstate' = [pstate EXCEPT ![NewPid] = o]
            /\ pkind' = [pkind EXCEPT ![NewPid] = "streamer"]
            /\ streamerProcess' = NewPid
            /\ ctl' = Ctl("start", NewPid, StartStatus(streamerProcess), FALSE, FALSE, ctl)
       ELSE /\ ctl' = Ctl("start", streamerProcess, StartStatus(streamerProcess),
                          FALSE, FALSE, ctl)
            /\ UNCHANGED <<pstate, pkind, streamerProcess>>
  /\ UNCHANGED <<signalingServer, psignal, phase>>
  /\ UNCHANGED relayVars

\* Variant: the exit of a child leaves streamerProcess as it is.
StreamerAfterExit_Keep(sp, p) == sp

\* streamerProcess.on('exit') and .on('error'): streamerProcess = null,
\* whichever child the handler was registered on.
StreamerAfterExit(sp, p) == Null

StreamerEvent(p) ==
  /\ phase \in {"booted", "listening"}
  /\ pkind[p] = "streamer"
  /\ pstate[p] \in {"alive", "failed"}
  /\ pstate' = [pstate EXCEPT ![p] = "gone"]
  /\ streamerProcess' = StreamerAfterExit(streamerProcess, p)
  /\ ctl' = Ctl(IF pstate[p] = "alive" THEN "streamer-exit" ELSE "streamer-error",
                p, None, FALSE, FALSE, ctl)
  /\ UNCHANGED <<signalingServer, pkind, psignal, phase>>
  /\ UNCHANGED relayVars

\* Variant: /stop kills the child outright.
StopSignal_Kill == "SIGKILL"

\* streamerProcess.kill('SIGINT')
StopSignal == "SIGINT"

\* app.post('/stop')
PostStop ==
  /\ phase = "listening"
  /\ IF streamerProcess = Null
       THEN /\ ctl' = Ctl("stop", Null, "not-running", FALSE, FALSE, ctl)
            /\ UNCHANGED <<psignal, streamerProcess>>
       ELSE /\ psignal' = Kill(psignal, streamerProcess, StopSignal)
            /\ streamerProcess' = Null
            /\ ctl' = Ctl("stop", streamerProcess, "stopping", FALSE, FALSE, ctl)
  /\ UNCHANGED <<signalingServer, pkind, pstate, phase>>
  /\ UNCHANGED relayVars

\* app.get('/status')
GetStatus ==
  /\ phase = "listening"
  /\ ctl' = Ctl("status", Null, None, signalingServer # Null, streamerProcess # Null, ctl)
  /\ UNCHANGED <<signalingServer, streamerProcess, pkind, pstate, psignal, phase>>
  /\ UNCHANGED relayVars

\* Variant: the shutdown forgets the signaling server.
ShutdownTargets_StreamerOnly(sp, ss) == {sp} \ {Null}

\* if (streamerProcess) streamerProcess.kill('SIGINT'); stopSignalingServer()
ShutdownTargets(sp, ss) == {sp, ss} \ {Null}

\* process.on('SIGINT') and process.on('SIGTERM'): the same handler
Shutdown(sig) ==
  /\ phase \in {"booted", "listening"}
  /\ psignal' = [p \in Pids |->
                  IF p \in ShutdownTargets(streamerProcess, signalingServer)
                    THEN "SIGINT" ELSE psignal[p]]
  /\ signalingServer' = Null
  /\ phase' = "exited"
  /\ ctl' = Ctl("shutdown", Null, sig, FALSE, FALSE, ctl)
  /\ UNCHANGED <<streamerProcess, pkind, pstate>>
  /\ UNCHANGED relayVars

SupNext ==
  \/ Boot
  \/ Listen
  \/ \E p \in Pids : SignalingEvent(p)
  \/ PostStart
  \/ \E p \in Pids : StreamerEvent(p)
  \/ PostStop
  \/ GetStatus
  \/ \E sig \in {"SIGINT", "SIGTERM"} : Shutdown(sig)

SupSpec == Init /\ [][SupNext]_vars

SupTypeOK ==
  /\ signalingServer \in Pids \cup {Null}
  /\ streamerProcess \in Pids \cup {Null}
  /\ pkind \in [Pids -> {"none", "signaling", "streamer"}]
  /\ pstate \in [Pids -> {"none", "alive", "failed", "gone"}]
  /\ psignal \in [Pids -> {"none", "SIGINT", "SIGKILL"}]
  /\ phase \in {"init", "booted", "listening", "exited"}

\* ================================================================ claims
RoleFrame(r) == Frame("json", "role", r, None)

Notification(raw) == Delivery(raw, Server, "notify")

\* This step is the handling of the event (op, ws, raw).
Handled(op, ws, raw) == nevents' = nevents + 1 /\ last' = Event(op, ws, raw)

\* In this step c is sent exactly the deliveries ds, in this order.
Receives(c, ds) == inbox'[c] = inbox[c] \o ds

Froms(c) == {inbox[c][i].from : i \in 1..Len(inbox[c])}

\* C1 (as claimed): the connection in the sender slot is never a member of
\* the viewer set.
C1_SenderNotViewer == sender = Null \/ sender \notin viewers

\* C2 (as claimed): a role declaration on a connection that already holds
\* the role sender or viewer changes neither its role nor the sender slot nor
\* the viewer set, and sends nothing.
C2_SecondDeclarationNoOp ==
  [][\A ws \in Conns : \A r \in {"sender", "viewer", "other"} :
       (Handled("message", ws, RoleFrame(r)) /\ role[ws] \in {"sender", "viewer"})
         => UNCHANGED <<role, sender, viewers, inbox>>]_vars

\* C3: a connection that has declared neither sender nor viewer is in neither
\* the sender slot nor the viewer set, has been sent nothing (no relayed
\* message, no notification), and nothing any connection has been sent
\* originates from it.
C3_UnknownIsolated ==
  \A c \in Conns \ declared :
    /\ c # sender
    /\ c \notin viewers
    /\ inbox[c] = <<>>
    /\ \A d \in Conns : c \notin Froms(d)

\* An undeclared connection has just sent an offer while an open sender and
\* an open viewer that has been notified are registered.
C3_Witness ==
  /\ last.op = "message"
  /\ last.raw.type = "offer"
  /\ last.ws \notin declared
  /\ IsOpen(sender)
  /\ \E v \in viewers : IsOpen(v) /\ inbox[v] # <<>>

\* C4 (as claimed): a connection declaring viewer joins the viewer set and
\* is the only one sent anything: sender-connected if the slot holds an open
\* connection, sender-disconnected otherwise.
C4_NotifiesIfSenderOpen ==
  [][\A ws \in Conns :
       Handled("message", ws, RoleFrame("viewer"))
         => /\ ws \in viewers'
            /\ Receives(ws, <<Notification(IF IsOpen(sender) THEN SenderConnected
                                                           ELSE SenderDisconnected)>>)
            /\ \A c \in Conns \ {ws} : Receives(c, <<>>)]_vars

\* C4 (amended): a connection declaring viewer joins the viewer set and is
\* the only one sent anything: sender-connected if the slot is non-empty,
\* open or not, sender-disconnected if the slot is empty.
C4_NotifiesIfSenderSet ==
  [][\A ws \in Conns :
       Handled("message", ws, RoleFrame("viewer"))
         => /\ ws \in viewers'
            /\ Receives(ws, <<Notification(IF sender # Null THEN SenderConnected
                                                            ELSE SenderDisconnected)>>)
            /\ \A c \in Conns \ {ws} : Receives(c, <<>>)]_vars

\* A connection has just declared viewer while the slot holds a connection
\* that is no longer open, and the last thing it was sent is sender-connected.
C4_Witness ==
  /\ last = Event("message", last.ws, RoleFrame("viewer"))
  /\ sender # Null
  /\ ~IsOpen(sender)
  /\ last.ws \in viewers
  /\ inbox[last.ws] # <<>>
  /\ inbox[last.ws][Len(inbox[last.ws])] = Notification(SenderConnected)

\* C5: a connection that joins as viewer (its first sender-or-viewer
\* declaration) while the slot holds an open connection is sent exactly one
\* sender-connected, and nothing was sent to it before.
C5_JoinSyncFirst ==
  [][\A ws \in Conns :
       (Handled("message", ws, RoleFrame("viewer")) /\ ws \notin declared /\ IsOpen(sender))
         => inbox'[ws] = <<Notification(SenderConnected)>>]_vars

\* A viewer that joined while the sender was open has since been relayed an
\* answer: sender-connected is the first thing in its inbox, exactly once.
C5_Witness ==
  \E v \in viewers :
    /\ IsOpen(sender)
    /\ Len(inbox[v]) = 2
    /\ inbox[v][1] = Notification(SenderConnected)
    /\ inbox[v][2].raw.type = "answer"
    /\ inbox[v][2].from = sender

\* C6: when the connection in the sender slot closes, the slot becomes empty
\* and every connection that is in the viewer set and open is sent exactly
\* one sender-disconnected; nobody else is sent anything.
C6_SenderCloseBroadcast ==
  [][\A ws \in Conns :
       (Handled("close", ws, NoRaw) /\ ws = sender)
         => /\ sender' = Null
            /\ \A c \in Conns :
                 Receives(c, IF c \in viewers /\ IsOpen(c)
                               THEN <<Notification(SenderDisconnected)>> ELSE <<>>)]_vars

\* The sender's close has just been handled: the slot is empty and an open
\* viewer that had been told sender-connected was told sender-disconnected.
C6_Witness ==
  /\ last.op = "close"
  /\ sender = Null
  /\ \E v \in viewers :
       /\ IsOpen(v)
       /\ Len(inbox[v]) = 2
       /\ inbox[v][1] = Notification(SenderConnected)
       /\ inbox[v][2] = Notification(SenderDisconnected)

\* C7: when a connection declares sender it becomes the content of the
\* sender slot and every connection that is in the viewer set and open is
\* sent one sender-connected; nothing else is sent, so the declaration itself
\* is relayed to nobody.
C7_SenderDeclaration ==
  [][\A ws \in Conns :
       Handled("message", ws, RoleFrame("sender"))
         => /\ sender' = ws
            /\ \A c \in Conns :
                 Receives(c, IF c \in viewers /\ IsOpen(c)
                               THEN <<Notification(SenderConnected)>> ELSE <<>>)]_vars

\* A connection has just declared sender, replacing another one in the slot,
\* while an open viewer was registered, which was told sender-connected.
C7_Witness ==
  /\ last = Event("message", last.ws, RoleFrame("sender"))
  /\ sender = last.ws
  /\ \E d \in Conns \ {sender} : role[d] = "sender"
  /\ \E v \in viewers \ {sender} :
       /\ IsOpen(v)
       /\ inbox[v] # <<>>
       /\ inbox[v][Len(inbox[v])] = Notification(SenderConnected)

\* C8: an offer or ice-candidate from a connection whose role is viewer is
\* sent, as the frame that arrived, to the connection in the sender slot if
\* that connection is open, and to nobody else; with no open sender it is
\* sent to nobody.
C8_ViewerToSender ==
  [][\A ws \in Conns : \A raw \in NegotiationFrames :
       (/\ Handled("message", ws, raw)
        /\ raw.type \in {"offer", "ice-candidate"}
        /\ role[ws] = "viewer")
         => \A c \in Conns :
              Receives(c, IF c = sender /\ IsOpen(sender)
                            THEN <<Delivery(raw, ws, "sender")>> ELSE <<>>)]_vars

\* A viewer's offer has just been handled and the open sender holds the
\* very frame, sdp included, as the last thing it was sent.
C8_Witness ==
  /\ last.op = "message"
  /\ last.raw.type = "offer"
  /\ role[last.ws] = "viewer"
  /\ IsOpen(sender)
  /\ sender # last.ws
  /\ inbox[sender] # <<>>
  /\ inbox[sender][Len(inbox[sender])] = Delivery(last.raw, last.ws, "sender")
  /\ last.raw.sdp = "X"

\* C9: an answer or ice-candidate from a connection whose role is sender is
\* sent, as the frame that arrived, exactly once to every connection that is
\* in the viewer set and open, and to no other connection.
C9_SenderToViewers ==
  [][\A ws \in Conns : \A raw \in NegotiationFrames :
       (/\ Handled("message", ws, raw)
        /\ raw.type \in {"answer", "ice-candidate"}
        /\ role[ws] = "sender")
         => \A c \in Conns :
              Receives(c, IF c \in viewers /\ IsOpen(c)
                            THEN <<Delivery(raw, ws, "viewers")>> ELSE <<>>)]_vars

\* A sender's answer has just been handled with two registered viewers, one
\* open, which holds the frame, and one no longer open, which was skipped.
C9_Witness ==
  /\ last.op = "message"
  /\ last.raw.type = "answer"
  /\ role[last.ws] = "sender"
  /\ \E v, w \in viewers :
       /\ IsOpen(v)
       /\ inbox[v][Len(inbox[v])] = Delivery(last.raw, last.ws, "viewers")
       /\ ~IsOpen(w)
       /\ \A i \in 1..Len(inbox[w]) : inbox[w][i].via # "viewers"

\* C10: an offer from a connection whose role is sender, or an answer from
\* one whose role is viewer, is dropped: nothing is sent, the sender slot,
\* the viewer set and every role are unchanged and the connection stays open.
C10_RoleErrorDropped ==
  [][\A ws \in Conns : \A raw \in NegotiationFrames :
       (/\ Handled("message", ws, raw)
        /\ \/ raw.type = "offer" /\ role[ws] = "sender"
           \/ raw.type = "answer" /\ role[ws] = "viewer")
         => /\ UNCHANGED <<inbox, sender, viewers, role>>
            /\ readyState'[ws] = OPEN]_vars

\* A viewer's answer has just been handled while an open sender and a second
\* open viewer were registered.
C10_Witness ==
  /\ last.op = "message"
  /\ last.raw.type = "answer"
  /\ role[last.ws] = "viewer"
  /\ last.ws \in viewers
  /\ IsOpen(last.ws)
  /\ IsOpen(sender)
  /\ \E v \in viewers \ {last.ws} : IsOpen(v)

\* C11 (as claimed): a frame that does not parse, or parses to something
\* other than an object with a type tag (null, a number, a string), is
\* dropped: nothing is sent, the sender slot, the viewer set and the roles
\* are unchanged, the connection stays open and the relay keeps running.
C11_MalformedDropped ==
  [][\A ws \in Conns : \A raw \in MalformedFrames :
       Handled("message", ws, raw)
         => /\ UNCHANGED <<inbox, sender, viewers, role>>
            /\ readyState'[ws] = OPEN
            /\ ~crashed']_vars

\* C12: a sender declaration replaces whatever is in the sender slot, and a
\* close clears the slot only when the closing connection is the one in it:
\* when any other connection closes, a displaced former sender included, the
\* slot keeps its content and nobody is sent anything.
C12_LastWriterWins ==
  [][\A ws \in Conns :
       /\ Handled("message", ws, RoleFrame("sender")) => sender' = ws
       /\ Handled("close", ws, NoRaw)
            => /\ sender' = (IF ws = sender THEN Null ELSE sender)
               /\ ws # sender => inbox' = inbox]_vars

\* The close of a displaced sender has just been handled: the slot holds the
\* newer, open sender and the open viewer's last notification is still
\* sender-connected.
C12_Witness ==
  /\ last.op = "close"
  /\ role[last.ws] = "sender"
  /\ last.ws \in declared
  /\ IsOpen(sender)
  /\ sender # last.ws
  /\ \E v \in viewers \ {sender} :
       /\ IsOpen(v)
       /\ inbox[v] # <<>>
       /\ \A i \in 1..Len(inbox[v]) : inbox[v][i] = Notification(SenderConnected)

\* C13: when a connection that is not in the sender slot closes, it is
\* removed from the viewer set if it was in it, the set and the slot are
\* otherwise unchanged and nobody is sent anything; and a connection whose
\* close has been handled is in neither the sender slot nor the viewer set.
C13_SilentDeparture ==
  /\ [](\A c \in Conns : readyState[c] = "CLOSED" => c # sender /\ c \notin viewers)
  /\ [][\A ws \in Conns :
          (Handled("close", ws, NoRaw) /\ ws # sender)
            => /\ viewers' = viewers \ {ws}
               /\ sender' = sender
               /\ inbox' = inbox]_vars

\* A registered viewer's close has just been handled, it has left the
\* viewer set, and the open sender is still in the slot.
C13_Witness ==
  /\ last.op = "close"
  /\ role[last.ws] = "viewer"
  /\ last.ws \in declared
  /\ last.ws \notin viewers
  /\ IsOpen(sender)

\* C19 (as claimed): an answer or ice-candidate from a connection that is
\* not the one in the sender slot is delivered to no viewer.
C19_OnlySlotBroadcasts ==
  [][\A ws \in Conns : \A raw \in NegotiationFrames :
       (/\ Handled("message", ws, raw)
        /\ raw.type \in {"answer", "ice-candidate"}
        /\ ws # sender)
         => \A v \in viewers : inbox'[v] = inbox[v]]_vars

\* The last notification c was sent.
LastNotification(c) ==
  LET idx == {i \in 1..Len(inbox[c]) : inbox[c][i].from = Server}
  IN  IF idx = {} THEN NoRaw
      ELSE inbox[c][CHOOSE i \in idx : \A j \in idx : j <= i].raw

\* C20: between handlers, for every open connection in the viewer set, the
\* last notification it was sent is sender-connected if the sender slot is
\* non-empty and sender-disconnected if the slot is empty.
C20_ViewersInSync ==
  \A v \in viewers :
    IsOpen(v) => LastNotification(v) = (IF sender # Null THEN SenderConnected
                                                           ELSE SenderDisconnected)

\* After a sender replacement and the close of the displaced sender, an open
\* viewer that joined before any sender holds three notifications, the last
\* being sender-connected, and the slot holds the newer sender.
C20_Witness ==
  /\ last.op = "close"
  /\ role[last.ws] = "sender"
  /\ sender # Null
  /\ \E v \in viewers :
       /\ IsOpen(v)
       /\ Len(inbox[v]) = 3
       /\ inbox[v][1] = Notification(SenderDisconnected)
       /\ LastNotification(v) = SenderConnected

\* ------------------------------------------------- claims on the controller
\* This step spawns exactly one child, a streamer, which becomes the tracked
\* one.
SpawnsOneStreamer ==
  \E p \in Pids :
    /\ pstate[p] = "none"
    /\ pstate'[p] # "none"
    /\ pkind'[p] = "streamer"
    /\ streamerProcess' = p
    /\ \A q \in Pids \ {p} : pstate'[q] = pstate[q] /\ pkind'[q] = pkind[q]

SpawnsNothing == pstate' = pstate /\ pkind' = pkind

Streamers == {p \in Pids : pkind[p] = "streamer"}

\* C14: /start with the streamer stopped spawns one child and answers
\* "started"; a /start that directly follows a /start, with no exit and no
\* stop in between, answers "already-running" and spawns nothing.
C14_StartIdempotent ==
  [][ctl'.op = "start"
       => /\ (streamerProcess = Null => ctl'.status = "started" /\ SpawnsOneStreamer)
          /\ (ctl.op = "start"
               => /\ ctl'.status = "already-running"
                  /\ SpawnsNothing
                  /\ streamerProcess' = streamerProcess)]_vars

\* Two /start in a row from stopped: "started", then "already-running", and
\* one streamer child exists.
C14_Witness ==
  /\ ctl.op = "start"
  /\ ctl.status = "already-running"
  /\ ctl.prevOp = "start"
  /\ ctl.prevStatus = "started"
  /\ Cardinality(Streamers) = 1
  /\ streamerProcess \in Streamers

\* C15: /stop with the streamer stopped answers "not-running", signals and
\* spawns nothing; with the streamer running it calls kill('SIGINT') on the
\* tracked child, answers "stopping" and leaves the state stopped at once,
\* whatever the child does, so that a /status that follows reports
\* streamer: false.
C15_Stop ==
  [][/\ (ctl'.op = "stop"
          => /\ SpawnsNothing
             /\ streamerProcess' = Null
             /\ IF streamerProcess = Null
                  THEN ctl'.status = "not-running" /\ psignal' = psignal
                  ELSE /\ ctl'.status = "stopping"
                       /\ psignal' = [psignal EXCEPT ![streamerProcess] = "SIGINT"])
      /\ (ctl'.op = "status"
          => /\ ctl'.streamer = (streamerProcess # Null)
             /\ (ctl.op = "stop" => ctl'.streamer = FALSE))]_vars

\* /status right after a /stop that answered "stopping": streamer is
\* reported false while the signalled child is still alive.
C15_Witness ==
  /\ ctl.op = "status"
  /\ ctl.prevOp = "stop"
  /\ ctl.prevStatus = "stopping"
  /\ ~ctl.streamer
  /\ \E p \in Streamers : pstate[p] = "alive" /\ psignal[p] = "SIGINT"

\* C16: when the tracked streamer child exits, or its spawn fails, the
\* controller keeps running and its state becomes stopped; a /start that
\* follows spawns a new child and answers "started".
C16_ExitResets ==
  [][/\ ((ctl'.op \in {"streamer-exit", "streamer-error"} /\ ctl'.p = streamerProcess)
          => streamerProcess' = Null /\ phase' = phase)
      /\ ((ctl'.op = "start" /\ ctl.op \in {"streamer-exit", "streamer-error"})
          => ctl'.status = "started" /\ SpawnsOneStreamer)]_vars

\* A /start answered "started" right after the spawn of the previous child
\* had failed; an earlier child had exited by itself.
C16_Witness ==
  /\ ctl.op = "start"
  /\ ctl.status = "started"
  /\ ctl.prevOp = "streamer-error"
  /\ phase = "listening"
  /\ \E p \in Streamers : pstate[p] = "gone" /\ psignal[p] = "none"
  /\ streamerProcess \in Streamers

\* C17: on SIGINT or SIGTERM the controller calls kill('SIGINT') on the
\* streamer child if one is tracked and on the signaling child if one is
\* tracked, signals no other child, and exits.
C17_Shutdown ==
  [][ctl'.op = "shutdown"
       => /\ phase' = "exited"
          /\ \A p \in Pids :
               psignal'[p] = IF p \in {streamerProcess, signalingServer}
                               THEN "SIGINT" ELSE psignal[p]]_vars

\* The controller has exited on SIGTERM with both children tracked: both
\* were signalled, and a child that had exited before was not.
C17_Witness ==
  /\ phase = "exited"
  /\ ctl.status = "SIGTERM"
  /\ \E p, q, r \in Pids :
       /\ pkind[p] = "signaling" /\ pstate[p] = "alive" /\ psignal[p] = "SIGINT"
       /\ pkind[q] = "streamer" /\ pstate[q] = "alive" /\ psignal[q] = "SIGINT"
       /\ pkind[r] = "streamer" /\ pstate[r] = "gone" /\ psignal[r] = "none"

\* C18 (as claimed): at most one streamer child is alive without having
\* been signalled, and the exit of a child never resets the state while
\* another streamer child is tracked.
C18_OneLiveStreamer ==
  Cardinality({p \in Streamers : pstate[p] = "alive" /\ psignal[p] = "none"}) <= 1

====
